---- MODULE Spec2Model ----
(***************************************************************************)
(* Model of add_watermark.py: the batch driver main(), the per-file        *)
(* process_image(), the watermark builder create_watermark() and the       *)
(* compositor apply_watermark().                                           *)
(*                                                                         *)
(* Python evaluates  int(a * 0.20),  image.height / image.width  and       *)
(* int(p * opacity)  in IEEE-754 binary64.  The first part of the module   *)
(* is that arithmetic: a float is a 53-bit mantissa held in three 18-bit   *)
(* limbs and a binary exponent, and every operation rounds to nearest,     *)
(* ties to even, as the hardware does.                                     *)
(***************************************************************************)
EXTENDS Integers, Sequences, FiniteSets, TLC

\* ------------------------------------------------------------------------
\* binary64 arithmetic on non-negative values
\* ------------------------------------------------------------------------

RECURSIVE Power2(_)
Power2(n) == IF n <= 0 THEN 1 ELSE 2 * Power2(n - 1)

Powers == [n \in 0..30 |-> Power2(n)]

\* a limb holds 18 bits
LimbBase == Powers[18]

\* 2^n, and 1 for n < 0
Pow2(n) == IF n <= 0 THEN 1 ELSE Powers[n]

\* number of bits of n: the least k with n < 2^k
BitLen(n) == CHOOSE k \in 0..30 : n < Powers[k] /\ (k = 0 \/ n >= Powers[k - 1])

Max(a, b) == IF a >= b THEN a ELSE b

\* the element of a one-element set.  In  The({F(x) : x \in {e}})  the
\* operand e is evaluated once, however often F uses it
The(S) == CHOOSE x \in S : TRUE

\* <<h, m, l>> stands for h * 2^36 + m * 2^18 + l
L3Dbl(x, bit) ==
    LET l == 2 * x[3] + bit
        m == 2 * x[2] + (l \div LimbBase)
        h == 2 * x[1] + (m \div LimbBase)
    IN  <<h, m % LimbBase, l % LimbBase>>

L3Geq(x, y) ==
    \/ x[1] > y[1]
    \/ x[1] = y[1] /\ x[2] > y[2]
    \/ x[1] = y[1] /\ x[2] = y[2] /\ x[3] >= y[3]

L3Sub(x, y) ==
    LET bl == IF x[3] < y[3] THEN 1 ELSE 0
        l  == x[3] - y[3] + bl * LimbBase
        bm == IF x[2] - bl < y[2] THEN 1 ELSE 0
        m  == x[2] - bl - y[2] + bm * LimbBase
    IN  <<x[1] - bm - y[1], m, l>>

L3Inc(x) ==
    LET l == x[3] + 1
        m == x[2] + (l \div LimbBase)
        h == x[1] + (m \div LimbBase)
    IN  <<h, m % LimbBase, l % LimbBase>>

FloatZero == [m |-> <<0, 0, 0>>, e |-> 0]

\* a mantissa with its rounding decision applied: value q * 2^e, q < 2^53,
\* is rounded up when up holds; a carry out of bit 53 renormalises
Rounded(q, e, up) ==
    LET q1 == IF up THEN L3Inc(q) ELSE q
    IN  IF q1[1] >= 131072
        THEN [m |-> <<65536, 0, 0>>, e |-> e + 1]
        ELSE [m |-> q1, e |-> e]

\* the quotient a / b of two aligned operands, b <= a < 2b, scaled by 2^s:
\* its 53 bits are produced 17 + 18 + 18 at a time, and the remainder
\* decides the rounding
DivAligned(a, b, s) ==
    LET n2 == a * 65536
        n1 == (n2 % b) * LimbBase
        n0 == (n1 % b) * LimbBase
        r  == n0 % b
    IN  The({ Rounded(q, s - 52, 2 * r > b \/ (2 * r = b /\ q[3] % 2 = 1)) :
              q \in {<<n2 \div b, n1 \div b, n0 \div b>>} })

\* float(a) / float(b) for integers 0 <= a, 0 < b, both below 2^12
FloatDiv(a, b) ==
    The({ IF x = 0 THEN FloatZero
          ELSE IF x * Pow2(bb - ba) < y * Pow2(ba - bb)
               THEN DivAligned(2 * x * Pow2(bb - ba), y * Pow2(ba - bb), ba - bb - 1)
               ELSE DivAligned(x * Pow2(bb - ba), y * Pow2(ba - bb), ba - bb) :
          x \in {a}, y \in {b}, ba \in {BitLen(a)}, bb \in {BitLen(b)} })

\* the 72-bit product <<p2, l1, l0>> scaled by 2^e, cut to 53 bits
MulRounded(p2, l1, l0, e) ==
    The({ The({ Rounded(q, e + s,
                        s > 0 /\ (l0 % d > d \div 2
                                  \/ (l0 % d = d \div 2 /\ q[3] % 2 = 1))) :
                q \in {<< p2 \div d,
                          (l1 \div d) + (p2 % d) * (LimbBase \div d),
                          (l0 \div d) + (l1 % d) * (LimbBase \div d) >>} }) :
          s \in {BitLen(p2) - 17}, d \in {Pow2(BitLen(p2) - 17)} })

\* float(t) * f for an integer 0 <= t < 2^12
FloatMulInt(t, f) ==
    The({ IF x = 0 \/ g.m = <<0, 0, 0>> THEN FloatZero
          ELSE LET p0 == g.m[3] * x
                   p1 == g.m[2] * x + (p0 \div LimbBase)
                   p2 == g.m[1] * x + (p1 \div LimbBase)
               IN  MulRounded(p2, p1 % LimbBase, p0 % LimbBase, g.e) :
          x \in {t}, g \in {f} })

\* x * 2^k for k <= 12
L3Shl(x, k) ==
    LET lo == Pow2(18 - k)
        up == Pow2(k)
    IN  << x[1] * up + (x[2] \div lo),
           (x[2] % lo) * up + (x[3] \div lo),
           (x[3] % lo) * up >>

\* x * q for 0 <= q <= 2^12
L3Mul(x, q) ==
    LET p0 == x[3] * q
        p1 == x[2] * q + (p0 \div LimbBase)
        p2 == x[1] * q + (p1 \div LimbBase)
    IN  <<p2, p1 % LimbBase, p0 % LimbBase>>

\* the remainder r of a long division by d, shifted for the next digit,
\* and the quotient q so far, shifted as well: the digit is estimated from
\* the top limbs, one too large at most, and corrected by comparing
DivDigit(q, r, d) ==
    The({ The({ << <<q[1], q[2], q[3] + digit>>, L3Sub(r, L3Mul(d, digit)) >> :
                digit \in {IF L3Geq(r, L3Mul(d, guess)) THEN guess ELSE guess - 1} }) :
          guess \in {(r[1] + 1) \div d[1]} })

\* k more quotient bits of the long division by d, whose top limb has 17
\* bits: p = <<quotient, remainder>> with remainder < d
DivChunk(p, d, k) ==
    The({ DivDigit(q, r, d) : q \in {L3Shl(p[1], k)}, r \in {L3Shl(p[2], k)} })

\* the quotient q of 53 bits scaled by 2^e, rounded by the remainder r of
\* the division by d
DivRounded(q, r, d, e) ==
    The({ Rounded(q, e, (L3Geq(r2, d) /\ r2 # d) \/ (r2 = d /\ q[3] % 2 = 1)) :
          r2 \in {L3Dbl(r, 0)} })

\* float(n) / f for an integer 0 <= n < 2^12 and f > 0: the operands are
\* aligned so that the quotient lies in [1, 2), then 52 more bits follow
IntDivFloat(n, f) ==
    The({ IF x = 0 THEN FloatZero
          ELSE The({ The({ The({ The({ The({ The({ The({
                   DivRounded(qr[1], qr[2], g.m,
                              IF L3Geq(n0, g.m) THEN 0 - 105 + bn - g.e
                                                ELSE 0 - 106 + bn - g.e) :
                   qr \in {DivChunk(b4, g.m, 4)} }) :
                   b4 \in {DivChunk(b3, g.m, 12)} }) :
                   b3 \in {DivChunk(b2, g.m, 12)} }) :
                   b2 \in {DivChunk(b1, g.m, 12)} }) :
                   b1 \in {DivChunk(b0, g.m, 12)} }) :
                   b0 \in {<< <<0, 0, 1>>,
                               L3Sub(IF L3Geq(n0, g.m) THEN n0 ELSE L3Dbl(n0, 0), g.m) >>} }) :
                   n0 \in {<<x * Pow2(17 - bn), 0, 0>>} }) :
          x \in {n}, g \in {f}, bn \in {BitLen(n)} })

\* the literals of the source, each the double nearest to the decimal
Float020 == FloatDiv(20, 100)
Float08 == FloatDiv(8, 10)
Float01 == FloatDiv(1, 10)
Float005 == FloatDiv(5, 100)
Float055 == FloatDiv(55, 100)

\* int(f): truncation, for values below 2^30
IntOfFloat(f) ==
    The({ IF g.m = <<0, 0, 0>> \/ 0 - g.e >= 53 THEN 0
          ELSE IF 0 - g.e >= 36 THEN g.m[1] \div Pow2(0 - g.e - 36)
          ELSE g.m[1] * Pow2(36 + g.e) + (g.m[2] \div Pow2(0 - g.e - 18)) :
          g \in {f} })

\* ------------------------------------------------------------------------
\* file names and paths (pathlib): a name is a sequence of characters
\* ------------------------------------------------------------------------

ThumbMark == <<"-", "t", "h", "u", "m", "b">>

image_extensions ==
    { <<".", "j", "p", "g">>, <<".", "j", "p", "e", "g">>, <<".", "p", "n", "g">>,
      <<".", "J", "P", "G">>, <<".", "J", "P", "E", "G">>, <<".", "P", "N", "G">> }

jpeg_suffixes == { <<".", "j", "p", "g">>, <<".", "j", "p", "e", "g">> }

\* str.lower() on the characters that occur in the names
LowerChar(c) ==
    CASE c = "J" -> "j" [] c = "P" -> "p" [] c = "G" -> "g"
      [] c = "E" -> "e" [] c = "N" -> "n" [] OTHER -> c

Lower(s) == [k \in 1..Len(s) |-> LowerChar(s[k])]

EndsWith(s, suf) ==
    /\ Len(suf) <= Len(s)
    /\ SubSeq(s, Len(s) - Len(suf) + 1, Len(s)) = suf

\* the Python test  sub in s
Contains(s, sub) ==
    \E k \in 0..(Len(s) - Len(sub)) : SubSeq(s, k + 1, k + Len(sub)) = sub

\* str.rfind('.'): 1-based position of the last dot, 0 when there is none
RFindDot(s) ==
    IF \E k \in 1..Len(s) : s[k] = "."
    THEN CHOOSE k \in 1..Len(s) : s[k] = "." /\ \A j \in (k + 1)..Len(s) : s[j] # "."
    ELSE 0

\* PurePath.suffix: the last dot and what follows it, unless the dot is the
\* first or the last character
Suffix(name) ==
    LET d == RFindDot(name)
    IN  IF 1 < d /\ d < Len(name) THEN SubSeq(name, d, Len(name)) ELSE <<>>

\* PurePath.stem
Stem(name) ==
    LET d == RFindDot(name)
    IN  IF 1 < d /\ d < Len(name) THEN SubSeq(name, 1, d - 1) ELSE name

\* rglob('*' + ext): the pattern matches a name that ends in ext; pathlib
\* compares case-insensitively on Windows and case-sensitively elsewhere
GlobMatch(name, ext, ignore_case) ==
    IF ignore_case THEN EndsWith(Lower(name), Lower(ext)) ELSE EndsWith(name, ext)

\* a filter that lets every name through
IsThumbNameNever(name) == FALSE

\* the filter  '-thumb' not in f.stem
IsThumbName(name) == Contains(Stem(name), ThumbMark)

\* a thumbnail name that loses the extension
thumbnail_path_bare(p) ==
    [parent |-> p.parent, name |-> Stem(p.name) \o ThumbMark]

\* parent / f"{stem}-thumb{suffix}"
thumbnail_path(p) ==
    [parent |-> p.parent, name |-> Stem(p.name) \o ThumbMark \o Suffix(p.name)]

\* ------------------------------------------------------------------------
\* bounds and inputs
\* ------------------------------------------------------------------------

\* files present under the root when the program starts
MaxFiles == 2
\* consecutive runs of the program over the same root
MaxRuns == 2
\* largest image and watermark side when apply_watermark is checked alone
MaxDim == 5

NoImage == [w |-> 0, h |-> 0, mode |-> "", marks |-> 0]
NoWatermark == [ok |-> FALSE, w |-> 0, h |-> 0, amax |-> 0]
NoPos == [set |-> FALSE, x |-> 0, y |-> 0]
NoCall == [fn |-> "none"]
Running == -1

InRoot(n) == [parent |-> "root", name |-> n]
InSub(n) == [parent |-> "root/sub", name |-> n]

Entry(p, w, h, mode, img, writable) ==
    [path |-> p, w |-> w, h |-> h, mode |-> mode, img |-> img,
     writable |-> writable, marks |-> 0]

\* the files a root may hold: ordinary images, a thumbnail left by an
\* earlier run, a name that only contains '-thumb', a mixed-case extension,
\* a file that is no image, an image too small for the logo, an image whose
\* thumbnail height truncates to 0, and files that cannot be written
Candidates ==
    { Entry(InRoot(<<"p", ".", "p", "n", "g">>), 1600, 1000, "RGB", TRUE, TRUE),
      Entry(InRoot(<<"p", "-", "t", "h", "u", "m", "b", ".", "p", "n", "g">>),
            400, 250, "RGBA", TRUE, TRUE),
      Entry(InRoot(<<"a", ".", "j", "p", "g">>), 100, 57, "RGB", TRUE, TRUE),
      Entry(InRoot(<<"a", "-", "t", "h", "u", "m", "b", ".", "j", "p", "g">>),
            400, 228, "RGB", TRUE, FALSE),
      Entry(InRoot(<<"b", ".", "J", "P", "G">>), 5, 5, "L", TRUE, TRUE),
      Entry(InRoot(<<"c", ".", "P", "n", "g">>), 64, 64, "P", TRUE, TRUE),
      Entry(InRoot(<<"n", ".", "t", "x", "t">>), 0, 0, "", FALSE, TRUE),
      Entry(InSub(<<"p", ".", "p", "n", "g">>), 1600, 3, "RGBA", TRUE, TRUE),
      Entry(InRoot(<<"t", "-", "t", "h", "u", "m", "b", "x", ".", "j", "p", "e", "g">>),
            200, 100, "RGB", TRUE, TRUE),
      Entry(InRoot(<<"k", ".", "j", "p", "e", "g">>), 0, 0, "", FALSE, TRUE),
      Entry(InRoot(<<"r", ".", "P", "N", "G">>), 300, 200, "LA", TRUE, FALSE) }

Content(c) ==
    [w |-> c.w, h |-> c.h, mode |-> c.mode, img |-> c.img,
     writable |-> c.writable, marks |-> c.marks]

\* --logo: a missing path, a file that is no image, a square logo, a wide one
Logos ==
    { [name |-> "missing.png", exists |-> FALSE, loads |-> FALSE, w |-> 1, h |-> 1],
      [name |-> "logo.txt", exists |-> TRUE, loads |-> FALSE, w |-> 1, h |-> 1],
      [name |-> "logo.png", exists |-> TRUE, loads |-> TRUE, w |-> 100, h |-> 100],
      [name |-> "wide.png", exists |-> TRUE, loads |-> TRUE, w |-> 200, h |-> 10] }

\* --thumbnail-width: the default and a width too small for any logo
ThumbnailWidths == {400, 5}

\* (text_width, text_height) as the font measures the label
TextMeasures == { <<18, 4>>, <<150, 12>> }

\* ------------------------------------------------------------------------
\* create_watermark and apply_watermark
\* ------------------------------------------------------------------------

\* Image.resize raises ValueError unless both sides are at least 1
ResizeRaises(w, h) == w < 1 \/ h < 1

\* a table that rounds up instead of truncating
PointAlphaUp(p, opacity) == IntOfFloat(FloatMulInt(p, opacity)) + 1

\* alpha.point(lambda p: int(p * opacity)): the table entry for p
PointAlpha(p, opacity) == IntOfFloat(FloatMulInt(p, opacity))

\* create_watermark, the logo block: the bounding width and the size the
\* logo is resized to; ok is FALSE when the block ends in sys.exit(1)
ResizedLogo(logo, image_width) ==
    The({ The({ The({
        IF ~logo.loads \/ ResizeRaises(logo_new_width, logo_new_height)
        THEN [ok |-> FALSE, w |-> 0, h |-> 0, watermark_width |-> watermark_width]
        ELSE [ok |-> TRUE, w |-> logo_new_width, h |-> logo_new_height,
              watermark_width |-> watermark_width] :
        logo_new_height \in
            {IntOfFloat(IntDivFloat(logo_new_width, FloatDiv(logo.w, logo.h)))} }) :
        logo_new_width \in {IntOfFloat(FloatMulInt(watermark_width, Float08))} }) :
        watermark_width \in {IntOfFloat(FloatMulInt(image_width, Float020))} })

\* create_watermark, the rest: the size and the largest alpha of the
\* watermark.  m1 and m2 are the first and the second text measurement
create_watermark(logo, opacity, m1, m2) ==
    LET text    == IF m1[1] > logo.watermark_width THEN m2 ELSE m1
        padding == IntOfFloat(FloatMulInt(logo.watermark_width, Float01))
        spacing == IntOfFloat(FloatMulInt(logo.watermark_width, Float005))
    IN  [ok |-> TRUE,
         w  |-> Max(logo.w, text[1]) + padding * 2,
         h  |-> logo.h + spacing + text[2] + padding * 2,
         amax |-> PointAlpha(255, opacity)]

Positions == {"top_right", "top_left", "bottom_right", "bottom_left", "center"}

\* a centre branch that keeps the padding of the corner branches
apply_watermark_padded(position, img_width, img_height, wm_width, wm_height, padding) ==
    CASE position = "top_right" ->
            <<img_width - wm_width - padding, padding>>
      [] position = "top_left" ->
            <<padding, padding>>
      [] position = "bottom_right" ->
            <<img_width - wm_width - padding, img_height - wm_height - padding>>
      [] position = "bottom_left" ->
            <<padding, img_height - wm_height - padding>>
      [] OTHER ->
            <<(img_width - wm_width) \div 2 - padding,
              (img_height - wm_height) \div 2 - padding>>

\* the paste coordinates apply_watermark computes
apply_watermark(position, img_width, img_height, wm_width, wm_height, padding) ==
    CASE position = "top_right" ->
            <<img_width - wm_width - padding, padding>>
      [] position = "top_left" ->
            <<padding, padding>>
      [] position = "bottom_right" ->
            <<img_width - wm_width - padding, img_height - wm_height - padding>>
      [] position = "bottom_left" ->
            <<padding, img_height - wm_height - padding>>
      [] OTHER ->
            <<(img_width - wm_width) \div 2, (img_height - wm_height) \div 2>>

\* ------------------------------------------------------------------------
\* the program: main() and process_image()
\* ------------------------------------------------------------------------

VARIABLES
    fs,            \* path -> content, the files under the root
    fs0,           \* fs as it was when the current run started
    args,          \* [logo, thumbnail_width], the command line
    ignore_case,   \* whether glob patterns match case-insensitively
    pc,            \* the statement the program is at
    image_files,   \* main: the discovered list
    i,             \* main: 1-based index of the loop
    image,         \* process_image: the loaded, normalised image
    thumbnail,     \* process_image: the resized image
    watermark,     \* process_image: the watermark built last
    pasted,        \* apply_watermark: where the last watermark was pasted
    out,           \* the console lines of the current run
    trace,         \* what the current run did: calls, reads, writes, errors
    exit_status,   \* Running, or the status the run ended with
    run,           \* number of the current run
    lists,         \* what each run discovered: path -> times listed
    call           \* a function applied on its own: arguments and result

vars == <<fs, fs0, args, ignore_case, pc, image_files, i, image, thumbnail,
          watermark, pasted, out, trace, exit_status, run, lists, call>>

locals == <<image, thumbnail, watermark, pasted>>

\* opacity=0.55 in both calls of create_watermark
Opacity == Float055

\* every sequence that lists each element of S once
RECURSIVE Orderings(_)
Orderings(S) ==
    IF S = {} THEN {<<>>}
    ELSE UNION {{<<x>> \o t : t \in Orderings(S \ {x})} : x \in S}

\* root_path.rglob('*' + ext)
Globbed(ext) == {p \in DOMAIN fs : GlobMatch(p.name, ext, ignore_case)}

\* image_files after the extend loop: the extensions in the order the set
\* yields them, each contributing its matches in directory order
RECURSIVE Extended(_)
Extended(exts) ==
    IF exts = <<>> THEN {<<>>}
    ELSE {a \o b : a \in Orderings(Globbed(Head(exts))), b \in Extended(Tail(exts))}

RECURSIVE Filtered(_)
Filtered(l) ==
    IF l = <<>> THEN <<>>
    ELSE IF IsThumbName(Head(l).name) THEN Filtered(Tail(l))
         ELSE <<Head(l)>> \o Filtered(Tail(l))

\* the lists the discovery can produce (extensions without a match add
\* nothing, so only the order of the others matters)
DiscoveredLists ==
    LET hit == {e \in image_extensions : Globbed(e) # {}}
    IN  {Filtered(l) : l \in UNION {Extended(eo) : eo \in Orderings(hit)}}

\* how often each path occurs in the list l
Listed(l) ==
    [p \in {l[k] : k \in 1..Len(l)} |-> Cardinality({k \in 1..Len(l) : l[k] = p})]

\* a loop that tries the failed file again
OnExceptionRetry(k) == k

\* the index the loop continues with after the except clause of process_image
OnExceptionNext(k) == k + 1

\* a validation that lets a missing logo through
LogoPathAssumed(a) == TRUE

\* logo_path.exists()
LogoPathExists(a) == a.logo.exists

\* mode of the image process_image works on
NormalizedMode(mode) ==
    IF mode \in {"RGBA", "LA", "P"} THEN "RGB"
    ELSE IF mode # "RGB" THEN "RGB" ELSE mode

\* mode of the file saved at path p from an RGBA composite
SavedMode(p) ==
    IF Lower(Suffix(p.name)) \in jpeg_suffixes THEN "RGB" ELSE "RGBA"

\* the open for writing fails on an existing file that is not writable
SaveRaises(p) == p \in DOMAIN fs /\ ~fs[p].writable

Written(p, c) == [q \in DOMAIN fs \cup {p} |-> IF q = p THEN c ELSE fs[q]]

\* the except clause of process_image: log, then on to the next file
Raise(stage) ==
    /\ out' = Append(out, <<"error", image_files[i]>>)
    /\ trace' = Append(trace, [ev |-> "error", k |-> i, at |-> stage])
    /\ pc' = "loop"
    /\ i' = OnExceptionNext(i)
    /\ image' = NoImage /\ thumbnail' = NoImage
    /\ watermark' = NoWatermark /\ pasted' = NoPos
    /\ UNCHANGED <<fs, exit_status>>

\* the except clause of create_watermark: sys.exit(1), which the
\* 'except Exception' of process_image does not catch
Fatal(stage) ==
    /\ out' = Append(out, <<"logo_error">>)
    /\ trace' = Append(trace, [ev |-> "fatal", k |-> i, at |-> stage])
    /\ pc' = "exited"
    /\ exit_status' = 1
    /\ UNCHANGED <<fs, i, image, thumbnail, watermark, pasted>>

ValidateLogo ==
    /\ pc = "validate"
    /\ IF LogoPathExists(args)
       THEN /\ pc' = "discover"
            /\ UNCHANGED <<out, exit_status>>
       ELSE /\ out' = Append(out, <<"logo_not_found", args.logo.name>>)
            /\ exit_status' = 1
            /\ pc' = "exited"
    /\ UNCHANGED <<fs, fs0, args, ignore_case, image_files, i, locals, trace,
                   run, lists, call>>

Discover ==
    /\ pc = "discover"
    /\ \E l \in DiscoveredLists :
         /\ image_files' = l
         /\ lists' = Append(lists, Listed(l))
         /\ IF l = <<>>
            THEN /\ out' = Append(out, <<"no_images">>)
                 /\ exit_status' = 0
                 /\ pc' = "exited"
                 /\ i' = i
            ELSE /\ out' = out \o << <<"found", Len(l)>>,
                                     <<"using_logo", args.logo.name>>,
                                     <<"thumbnail_width", args.thumbnail_width>> >>
                 /\ pc' = "loop"
                 /\ i' = 1
                 /\ UNCHANGED exit_status
    /\ UNCHANGED <<fs, fs0, args, ignore_case, locals, trace, run, call>>

LoopNext ==
    /\ pc = "loop"
    /\ IF i <= Len(image_files)
       THEN /\ out' = Append(out, <<"processing", i, Len(image_files), image_files[i]>>)
            /\ trace' = Append(trace, [ev |-> "call", k |-> i, at |-> image_files[i]])
            /\ pc' = "load"
            /\ UNCHANGED exit_status
       ELSE /\ out' = Append(out, <<"completed", Len(image_files)>>)
            /\ exit_status' = 0
            /\ pc' = "exited"
            /\ UNCHANGED trace
    /\ pasted' = NoPos
    /\ UNCHANGED <<fs, fs0, args, ignore_case, image_files, i, image, thumbnail,
                   watermark, run, lists, call>>

LoadImage ==
    /\ pc = "load"
    /\ LET p == image_files[i]
       IN  IF fs[p].img
           THEN /\ image' = [w |-> fs[p].w, h |-> fs[p].h,
                             mode |-> NormalizedMode(fs[p].mode),
                             marks |-> fs[p].marks]
                /\ trace' = Append(trace, [ev |-> "read", k |-> i, at |-> p])
                /\ pc' = "watermark"
                /\ UNCHANGED <<fs, i, thumbnail, watermark, pasted, out, exit_status>>
           ELSE Raise("load")
    /\ UNCHANGED <<fs0, args, ignore_case, image_files, run, lists, call>>

WatermarkOriginal ==
    /\ pc = "watermark"
    /\ \E logo \in {ResizedLogo(args.logo, image.w)} :
           IF logo.ok
           THEN /\ \E m1 \in TextMeasures, m2 \in TextMeasures :
                     watermark' = create_watermark(logo, Opacity, m1, m2)
                /\ pc' = "save"
                /\ UNCHANGED <<fs, i, image, thumbnail, pasted, out, trace,
                               exit_status>>
           ELSE Fatal("watermark")
    /\ UNCHANGED <<fs0, args, ignore_case, image_files, run, lists, call>>

SaveOriginal ==
    /\ pc = "save"
    /\ LET p  == image_files[i]
           at == apply_watermark("top_right", image.w, image.h,
                                 watermark.w, watermark.h, 20)
       IN  IF SaveRaises(p)
           THEN Raise("save")
           ELSE /\ fs' = Written(p, [w |-> image.w, h |-> image.h,
                                     mode |-> SavedMode(p), img |-> TRUE,
                                     writable |-> TRUE, marks |-> image.marks + 1])
                /\ pasted' = [set |-> TRUE, x |-> at[1], y |-> at[2]]
                /\ watermark' = NoWatermark
                /\ out' = Append(out, <<"watermarked", p>>)
                /\ trace' = Append(trace, [ev |-> "write", k |-> i, at |-> p])
                /\ pc' = "resize"
                /\ UNCHANGED <<i, image, thumbnail, exit_status>>
    /\ UNCHANGED <<fs0, args, ignore_case, image_files, run, lists, call>>

ResizeThumbnail ==
    /\ pc = "resize"
    /\ \E thumbnail_height \in
            {IntOfFloat(FloatMulInt(args.thumbnail_width, FloatDiv(image.h, image.w)))} :
           IF ResizeRaises(args.thumbnail_width, thumbnail_height)
           THEN Raise("resize")
           ELSE /\ thumbnail' = [w |-> args.thumbnail_width, h |-> thumbnail_height,
                                 mode |-> image.mode, marks |-> image.marks]
                /\ pasted' = NoPos
                /\ pc' = "watermark_thumbnail"
                /\ UNCHANGED <<fs, i, image, watermark, out, trace, exit_status>>
    /\ UNCHANGED <<fs0, args, ignore_case, image_files, run, lists, call>>

WatermarkThumbnail ==
    /\ pc = "watermark_thumbnail"
    /\ \E logo \in {ResizedLogo(args.logo, thumbnail.w)} :
           IF logo.ok
           THEN /\ \E m1 \in TextMeasures, m2 \in TextMeasures :
                     watermark' = create_watermark(logo, Opacity, m1, m2)
                /\ pc' = "save_thumbnail"
                /\ UNCHANGED <<fs, i, image, thumbnail, pasted, out, trace,
                               exit_status>>
           ELSE Fatal("watermark_thumbnail")
    /\ UNCHANGED <<fs0, args, ignore_case, image_files, run, lists, call>>

SaveThumbnail ==
    /\ pc = "save_thumbnail"
    /\ LET p  == thumbnail_path(image_files[i])
           at == apply_watermark("top_right", thumbnail.w, thumbnail.h,
                                 watermark.w, watermark.h, 10)
       IN  IF SaveRaises(p)
           THEN Raise("save_thumbnail")
           ELSE /\ fs' = Written(p, [w |-> thumbnail.w, h |-> thumbnail.h,
                                     mode |-> SavedMode(p), img |-> TRUE,
                                     writable |-> TRUE, marks |-> thumbnail.marks + 1])
                /\ out' = Append(out, <<"thumbnail", p>>)
                /\ trace' = Append(Append(trace, [ev |-> "write", k |-> i, at |-> p]),
                                   [ev |-> "done", k |-> i, at |-> image_files[i]])
                /\ pc' = "loop"
                /\ i' = i + 1
                /\ image' = NoImage /\ thumbnail' = NoImage
                /\ watermark' = NoWatermark
                /\ pasted' = [set |-> TRUE, x |-> at[1], y |-> at[2]]
                /\ UNCHANGED exit_status
    /\ UNCHANGED <<fs0, args, ignore_case, image_files, run, lists, call>>

\* the program, having completed, is started again with the same command
\* line on the root it has just processed
Rerun ==
    /\ pc = "exited"
    /\ exit_status = 0
    /\ run < MaxRuns
    /\ run' = run + 1
    /\ fs0' = fs
    /\ pc' = "validate"
    /\ image_files' = <<>>
    /\ i' = 0
    /\ out' = <<>>
    /\ trace' = <<>>
    /\ exit_status' = Running
    /\ image' = NoImage /\ thumbnail' = NoImage
    /\ watermark' = NoWatermark /\ pasted' = NoPos
    /\ UNCHANGED <<fs, args, ignore_case, lists, call>>

Init ==
    /\ \E S \in SUBSET Candidates :
         /\ Cardinality(S) <= MaxFiles
         /\ fs = [p \in {c.path : c \in S} |->
                    Content(CHOOSE c \in S : c.path = p)]
    /\ fs0 = fs
    /\ args \in [logo : Logos, thumbnail_width : ThumbnailWidths]
    /\ ignore_case \in BOOLEAN
    /\ pc = "validate"
    /\ image_files = <<>>
    /\ i = 0
    /\ image = NoImage /\ thumbnail = NoImage
    /\ watermark = NoWatermark /\ pasted = NoPos
    /\ out = <<>>
    /\ trace = <<>>
    /\ exit_status = Running
    /\ run = 1
    /\ lists = <<>>
    /\ call = NoCall

Next ==
    \/ ValidateLogo
    \/ Discover
    \/ LoopNext
    \/ LoadImage
    \/ WatermarkOriginal
    \/ SaveOriginal
    \/ ResizeThumbnail
    \/ WatermarkThumbnail
    \/ SaveThumbnail

Spec == Init /\ [][Next]_vars

\* the same program, run again on the root it has processed
NextRerun == Next \/ Rerun

SpecRerun == Init /\ [][NextRerun]_vars

\* ------------------------------------------------------------------------
\* apply_watermark and the opacity table, each applied on its own
\* ------------------------------------------------------------------------

Paddings == {0, 10, 20}

\* opacity as the double nearest to num / den
Opacities ==
    {<<n, d>> \in (0..100) \X {1, 2, 3, 7, 20, 100} : n <= d}

\* the program is not running
Idle ==
    /\ fs = <<>> /\ fs0 = <<>>
    /\ args = [logo |-> [name |-> "logo.png", exists |-> TRUE, loads |-> TRUE,
                         w |-> 100, h |-> 100],
               thumbnail_width |-> 400]
    /\ ignore_case = FALSE
    /\ pc = "idle"
    /\ image_files = <<>>
    /\ i = 0
    /\ image = NoImage /\ thumbnail = NoImage
    /\ watermark = NoWatermark /\ pasted = NoPos
    /\ out = <<>>
    /\ trace = <<>>
    /\ exit_status = Running
    /\ run = 1
    /\ lists = <<>>

program == <<fs, fs0, args, ignore_case, pc, image_files, i, image, thumbnail,
             watermark, pasted, out, trace, exit_status, run, lists>>

InitApply ==
    /\ Idle
    /\ call \in [fn : {"apply_watermark"}, position : Positions,
                 img_width : 1..MaxDim, img_height : 1..MaxDim,
                 wm_width : 1..MaxDim, wm_height : 1..MaxDim,
                 padding : Paddings, done : {FALSE}, x : {0}, y : {0}]

ApplyWatermark ==
    /\ call.fn = "apply_watermark"
    /\ ~call.done
    /\ LET at == apply_watermark(call.position, call.img_width, call.img_height,
                                 call.wm_width, call.wm_height, call.padding)
       IN  call' = [call EXCEPT !.done = TRUE, !.x = at[1], !.y = at[2]]
    /\ UNCHANGED program

SpecApply == InitApply /\ [][ApplyWatermark]_vars

InitPoint ==
    /\ Idle
    /\ call \in [fn : {"point"}, opacity : Opacities, p : 0..255,
                 done : {FALSE}, alpha : {0}]

PointOpacity ==
    /\ call.fn = "point"
    /\ ~call.done
    /\ call' = [call EXCEPT !.done = TRUE,
                  !.alpha = PointAlpha(call.p, FloatDiv(call.opacity[1], call.opacity[2]))]
    /\ UNCHANGED program

SpecPoint == InitPoint /\ [][PointOpacity]_vars

\* ------------------------------------------------------------------------
\* properties
\* ------------------------------------------------------------------------

Abs(n) == IF n < 0 THEN 0 - n ELSE n

\* round(f): nearest integer, ties to even, for values below 2^30
PyRound(f) ==
    LET k    == 0 - f.e
        fl   == IntOfFloat(f)
        \* the fraction bits, compared with one half
        frac == IF k >= 54 THEN <<0, 0, 0>>
                ELSE IF k = 53 THEN f.m
                ELSE IF k >= 36
                     THEN <<f.m[1] % Pow2(k - 36), f.m[2], f.m[3]>>
                     ELSE <<0, f.m[2] % Pow2(k - 18), f.m[3]>>
        half == IF k >= 54 THEN <<1, 0, 0>>
                ELSE IF k > 36 THEN <<Pow2(k - 37), 0, 0>>
                ELSE <<0, Pow2(k - 19), 0>>
        up   == k <= 53 /\
                ((L3Geq(frac, half) /\ frac # half) \/ (frac = half /\ fl % 2 = 1))
    IN  IF f.m = <<0, 0, 0>> THEN 0 ELSE IF up THEN fl + 1 ELSE fl

Range(l) == {l[k] : k \in 1..Len(l)}

EventsOf(kinds) == {j \in 1..Len(trace) : trace[j].ev \in kinds}

WritesOf(k) == {j \in EventsOf({"write"}) : trace[j].k = k}

\* the k of the calls of process_image, in the order they were made
Calls ==
    LET c == SelectSeq(trace, LAMBDA e : e.ev = "call")
    IN  [n \in 1..Len(c) |-> c[n].k]

\* the current run has built its list
Discovered == Len(lists) >= run

\* <stem>-thumb<suffix> beside p
SiblingThumb(p) ==
    [parent |-> p.parent, name |-> Stem(p.name) \o ThumbMark \o Suffix(p.name)]

LogoIsGood == args.logo.exists /\ args.logo.loads

\* C1: with a logo that exists and loads, a run that has a list ends only
\* after process_image was called once for each entry, in list order: every
\* failure is logged with the path of its file and the run ends with the
\* completion summary.
C1_EveryFileProcessedOnce ==
    (LogoIsGood /\ pc = "exited" /\ image_files # <<>>) =>
        /\ Calls = [k \in 1..Len(image_files) |-> k]
        /\ \A j \in EventsOf({"error"}) :
             \E n \in 1..Len(out) : out[n] = <<"error", image_files[trace[j].k]>>
        /\ out[Len(out)] = <<"completed", Len(image_files)>>

\* C2: with a logo path that does not exist the run prints the error that
\* names the path and exits with status 1; nothing was discovered, read or
\* written.
C2_MissingLogoTouchesNothing ==
    (~args.logo.exists /\ pc # "validate") =>
        /\ pc = "exited"
        /\ exit_status = 1
        /\ out = << <<"logo_not_found", args.logo.name>> >>
        /\ trace = <<>>
        /\ image_files = <<>>
        /\ lists = <<>>
        /\ fs = fs0

C2_Witness ==
    /\ ~args.logo.exists
    /\ pc = "exited"
    /\ \E p \in DOMAIN fs : \E e \in image_extensions : EndsWith(p.name, e)

\* C3: the list holds exactly the paths whose name ends in one of the six
\* extensions and whose stem does not contain '-thumb', each of them once.
C3_ListIsTheMatchingSet ==
    Discovered =>
        LET want == {p \in DOMAIN fs0 :
                       /\ \E e \in image_extensions : EndsWith(p.name, e)
                       /\ ~Contains(Stem(p.name), ThumbMark)}
        IN  /\ Range(image_files) = want
            /\ Len(image_files) = Cardinality(want)

\* C4: with a logo that exists and loads every run ends with status 0, and a
\* run that finds no image prints so and calls process_image for nothing.
C4_ExitStatusZero ==
    (LogoIsGood /\ pc = "exited") =>
        /\ exit_status = 0
        /\ image_files = <<>> => (out = << <<"no_images">> >> /\ trace = <<>>)

\* C5: a file that process_image handled to the end had exactly two paths
\* written, its own and its sibling thumbnail; no write goes anywhere else,
\* and a file that is neither in the list nor such a sibling is as it was.
C5_WritesOnlyOriginalAndThumbnail ==
    LET siblings == {SiblingThumb(q) : q \in Range(image_files)}
    IN  /\ \A j \in EventsOf({"done"}) :
             LET k == trace[j].k
             IN  /\ {trace[m].at : m \in WritesOf(k)} =
                        {image_files[k], SiblingThumb(image_files[k])}
                 /\ Cardinality(WritesOf(k)) = 2
        /\ \A j \in EventsOf({"write"}) :
             trace[j].at \in {image_files[trace[j].k], SiblingThumb(image_files[trace[j].k])}
        /\ \A p \in DOMAIN fs0 :
             (p \notin Range(image_files) /\ p \notin siblings) =>
                 (p \in DOMAIN fs /\ fs[p] = fs0[p])
        /\ DOMAIN fs \subseteq DOMAIN fs0 \cup siblings

C5_Witness ==
    /\ pc = "exited"
    /\ EventsOf({"done"}) # {}
    /\ \E p \in DOMAIN fs0 :
         p \notin Range(image_files) /\ p \notin {SiblingThumb(q) : q \in Range(image_files)}

\* C6: the thumbnail saved for a W x H source is thumbnail_width pixels wide
\* and floor(thumbnail_width * H / W) pixels high.
C6_ThumbnailSize ==
    \A j \in EventsOf({"done"}) :
        LET src == image_files[trace[j].k]
            t   == fs[SiblingThumb(src)]
        IN  /\ t.w = args.thumbnail_width
            /\ t.h = (args.thumbnail_width * fs[src].h) \div fs[src].w

\* C7: with position 'center' the centre of the pasted watermark is within
\* one pixel of the centre of the image on both axes, whatever the sizes
\* and whatever the padding.
C7_CenterWithinOnePixel ==
    (call.fn = "apply_watermark" /\ call.done /\ call.position = "center") =>
        /\ Abs(2 * call.x + call.wm_width - call.img_width) <= 2
        /\ Abs(2 * call.y + call.wm_height - call.img_height) <= 2
        /\ \A q \in Paddings :
             apply_watermark("center", call.img_width, call.img_height,
                             call.wm_width, call.wm_height, q) = <<call.x, call.y>>

C7_Witness ==
    /\ call.fn = "apply_watermark" /\ call.done /\ call.position = "center"
    /\ call.wm_width > call.img_width
    /\ (call.wm_width - call.img_width) % 2 = 1
    /\ call.x < 0
    /\ call.padding = 20

\* C8: the alpha written for p is int(p * opacity): at most
\* round(255 * opacity), at most 140 for opacity 0.55, 0 for p = 0, and the
\* exact floor of p * opacity or, when rounding falls short, one less.
C8_AlphaBound ==
    (call.fn = "point" /\ call.done) =>
        LET opacity == FloatDiv(call.opacity[1], call.opacity[2])
            exact   == (call.p * call.opacity[1]) \div call.opacity[2]
        IN  /\ call.alpha <= PyRound(FloatMulInt(255, opacity))
            /\ call.opacity = <<11, 20>> => call.alpha <= 140
            /\ call.p = 0 => call.alpha = 0
            /\ exact - call.alpha \in {0, 1}

C8_Witness ==
    /\ call.fn = "point" /\ call.done
    /\ call.opacity = <<11, 20>>
    /\ call.p = 255
    /\ call.alpha = 140

PreStages == {"load", "watermark", "save"}

PostStages == {"resize", "watermark_thumbnail", "save_thumbnail"}

\* C9: in one call of process_image the original is written before anything
\* of the thumbnail; a failure before that write leaves both paths
\* unwritten, a failure after it leaves the original overwritten and the
\* thumbnail unwritten, and the file is not tried again.
C9_OriginalFirstNoRollbackNoRetry ==
    /\ \A j \in EventsOf({"write"}) :
         trace[j].at # image_files[trace[j].k] =>
             \E m \in 1..(j - 1) :
                 trace[m] = [ev |-> "write", k |-> trace[j].k,
                             at |-> image_files[trace[j].k]]
    /\ \A j \in EventsOf({"error", "fatal"}) :
         LET k == trace[j].k
         IN  /\ trace[j].at \in PreStages => WritesOf(k) = {}
             /\ trace[j].at \in PostStages =>
                  /\ {trace[m].at : m \in WritesOf(k)} = {image_files[k]}
                  /\ Cardinality(WritesOf(k)) = 1
                  /\ \A m \in WritesOf(k) : m < j
                  /\ fs[image_files[k]].marks > fs0[image_files[k]].marks
             /\ Cardinality({m \in EventsOf({"call"}) : trace[m].k = k}) = 1
             /\ pc # "exited" => i > k

C9_Witness ==
    /\ pc = "exited"
    /\ \E j \in EventsOf({"error"}) : trace[j].at \in PostStages /\ trace[j].k = 1
    /\ Len(image_files) = 2
    /\ EventsOf({"done"}) # {}
    /\ exit_status = 0

\* C10: a thumbnail is written to a path whose stem contains '-thumb', never
\* to the path of a listed original and never to a '-thumb-thumb' name, and
\* every later run over the root lists what the first run listed.
C10_ThumbnailsNeverFeedBack ==
    /\ \A j \in EventsOf({"write"}) :
         LET e == trace[j]
         IN  e.at # image_files[e.k] =>
                 /\ Contains(Stem(e.at.name), ThumbMark)
                 /\ ~Contains(Stem(e.at.name), ThumbMark \o ThumbMark)
                 /\ e.at \notin Range(image_files)
    /\ \A r \in 1..Len(lists) : lists[r] = lists[1]

C10_Witness ==
    /\ run = 2
    /\ pc = "exited"
    /\ Len(lists) = 2
    /\ EventsOf({"done"}) # {}
    /\ \E p \in DOMAIN fs : fs[p].marks >= 2
    /\ \E p \in DOMAIN fs : Contains(Stem(p.name), ThumbMark) /\ fs[p].marks >= 2

====
